---- MODULE Spec2Model ----
(***************************************************************************)
(* Model of src/script.js: a shop ledger kept as one document in           *)
(* localStorage (items, sales, monthlySnapshots) and the DOM handlers that *)
(* read it, change it and write it back.                                   *)
(*                                                                         *)
(* Representation.                                                         *)
(*   - a name is a sequence of one-character strings;                      *)
(*   - a calendar date 'YYYY-MM-DD' is a day number, its month 'YYYY-MM'   *)
(*     a month number (ym), a year a year number; the code compares dates  *)
(*     with localeCompare, which on ISO dates is the order of the days;    *)
(*   - the value of a form field is a string token; parseFloat / parseInt  *)
(*     give <<n>> for the number n and <<>> for NaN;                       *)
(*   - a date field is <<>> when empty and <<d>> when it holds day d;      *)
(*   - money is counted in whole units.                                    *)
(***************************************************************************)
EXTENDS Integers, Sequences, FiniteSets, TLC

VARIABLES items, sales, monthlySnapshots, nops, last

vars == <<items, sales, monthlySnapshots, nops, last>>

(***************************************************************************)
(* Bounds of the model.                                                    *)
(***************************************************************************)
MaxDay == 3
DaysPerMonth == 2
MaxOps == 3
Today == 1

MonthsPerYear == 12

Days == 0..(MaxDay - 1)
ymOf(d) == d \div DaysPerMonth
Months == {ymOf(d) : d \in Days}
yearOf(m) == m \div MonthsPerYear
Years == {yearOf(m) : m \in Months}

(***************************************************************************)
(* Values the form fields take.                                            *)
(***************************************************************************)
NameInputs == {<<" ">>, <<"a">>, <<" ", "A">>, <<"b">>}
TextInputs == {<<>>, <<"x">>}
PriceInputs == {"x", "-1", "1", "2"}
QtyInputs == {"x", "-1", "0", "1", "2"}
ProfitInputs == {"", "x", "1"}
DateInputs == {<<>>} \cup {<<d>> : d \in Days}
MonthInputs == {<<>>} \cup {<<m>> : m \in Months}

NaN == <<>>
isNaN(v) == v = <<>>

\* parseFloat on the tokens of the model
parseFloat(tok) ==
    CASE tok = "-1" -> <<-1>>
      [] tok = "0" -> <<0>>
      [] tok = "1" -> <<1>>
      [] tok = "2" -> <<2>>
      [] OTHER -> NaN

\* parseInt(tok, 10) on the tokens of the model
parseInt(tok) ==
    CASE tok = "-1" -> <<-1>>
      [] tok = "0" -> <<0>>
      [] tok = "1" -> <<1>>
      [] tok = "2" -> <<2>>
      [] OTHER -> NaN

Max(a, b) == IF a >= b THEN a ELSE b

(***************************************************************************)
(* Names.                                                                  *)
(***************************************************************************)
toLowerChar(c) == IF c = "A" THEN "a" ELSE IF c = "B" THEN "b" ELSE c

RECURSIVE trimLeft(_)
trimLeft(s) ==
    IF s = <<>> THEN s
    ELSE IF Head(s) = " " THEN trimLeft(Tail(s)) ELSE s

RECURSIVE trimRight(_)
trimRight(s) ==
    IF s = <<>> THEN s
    ELSE IF s[Len(s)] = " " THEN trimRight(SubSeq(s, 1, Len(s) - 1)) ELSE s

trim(s) == trimRight(trimLeft(s))

toLowerCase(s) == [i \in 1..Len(s) |-> toLowerChar(s[i])]

\* normalizeName that trims and keeps the case
normalizeNameKeepCase(name) == trim(name)

normalizeName(name) == toLowerCase(trim(name))

(***************************************************************************)
(* Dates.                                                                  *)
(***************************************************************************)
\* ymd(date): an empty date is today
ymd(date, now) == IF date = <<>> THEN now ELSE date[1]

\* ym(date): the month of ymd(date)
ym(date, now) == ymOf(ymd(date, now))

\* `field.value || new Date().toISOString().slice(0,7)` of a month field
monthField(mf, now) == IF mf = <<>> THEN ymOf(now) ELSE mf[1]

(***************************************************************************)
(* getLatestPrice: copy the history, sort it by date (Array.prototype.sort *)
(* is stable), take the price of the last element.                        *)
(***************************************************************************)
RECURSIVE insertByDate(_, _)
\* insert e into the date-sorted sequence s after every element whose date
\* is not later than e's (what a stable sort does with a later element)
insertByDate(s, e) ==
    IF s = <<>> THEN <<e>>
    ELSE IF s[Len(s)].date <= e.date THEN Append(s, e)
    ELSE Append(insertByDate(SubSeq(s, 1, Len(s) - 1), e), s[Len(s)])

RECURSIVE sortByDate(_)
sortByDate(hist) ==
    IF hist = <<>> THEN <<>>
    ELSE insertByDate(sortByDate(SubSeq(hist, 1, Len(hist) - 1)), hist[Len(hist)])

\* the price of the entry inserted last, as if the history were kept sorted
getLatestPriceUnsorted(item) ==
    LET hist == item.priceHistory
    IN  IF Len(hist) = 0 THEN 0 ELSE hist[Len(hist)].price

getLatestPrice(item) ==
    LET hist == item.priceHistory
        sorted == sortByDate(hist)
    IN  IF Len(hist) = 0 THEN 0 ELSE sorted[Len(sorted)].price

\* logQuantityChange: the audit log after the call
logQuantityChange(item, month, dateStr, delta, source) ==
    IF delta = 0 THEN item.qtyHistory
    ELSE Append(item.qtyHistory,
                [month |-> month, date |-> dateStr, delta |-> delta, source |-> source])

\* item.quantities[month] || 0
qtyOf(item, month) ==
    IF month \in DOMAIN item.quantities THEN item.quantities[month] ELSE 0

\* obj[k] = v on an object modelled as a function
Put(f, k, v) == [x \in (DOMAIN f) \cup {k} |-> IF x = k THEN v ELSE f[x]]

\* delete obj[k]
Remove(f, S) == [x \in (DOMAIN f) \ S |-> f[x]]


(***************************************************************************)
(* Sums.                                                                   *)
(***************************************************************************)
RECURSIVE sumTotal(_)
\* rows.reduce((sum, s) => sum + s.total, 0)
sumTotal(rows) ==
    IF rows = <<>> THEN 0 ELSE sumTotal(SubSeq(rows, 1, Len(rows) - 1)) + rows[Len(rows)].total

RECURSIVE sumProfit(_)
\* rows.reduce((sum, s) => sum + (s.profit || 0), 0)
sumProfit(rows) ==
    IF rows = <<>> THEN 0 ELSE sumProfit(SubSeq(rows, 1, Len(rows) - 1)) + rows[Len(rows)].profit

\* the contribution of one item to the valuation of a month
itemTotal(item, month) ==
    LET qty == qtyOf(item, month)
    IN  IF qty <= 0 THEN 0 ELSE getLatestPrice(item) * qty

RECURSIVE itemsTotalOver(_, _, _)
\* Object.values(state.items).forEach(item => ... grand += total)
itemsTotalOver(its, keys, month) ==
    IF keys = {} THEN 0
    ELSE LET k == CHOOSE x \in keys : TRUE
         IN  itemTotal(its[k], month) + itemsTotalOver(its, keys \ {k}, month)

\* the sales of every month
monthSalesOfAll(sl, month) == sl

\* state.sales.filter(s => ym(s.date) === month)
monthSalesOf(sl, month) == SelectSeq(sl, LAMBDA s : ymOf(s.date) = month)

(***************************************************************************)
(* renderMonthlyReport: the totals it shows for a month.                   *)
(***************************************************************************)
monthlyTotals(its, sl, month) ==
    LET monthSales == monthSalesOf(sl, month)
    IN  [itemsTotal |-> itemsTotalOver(its, DOMAIN its, month),
         salesTotal |-> sumTotal(monthSales),
         salesProfit |-> sumProfit(monthSales),
         salesCount |-> Len(monthSales)]

\* the snapshot renderMonthlyReport writes
snapshotOf(totals, now) ==
    [generatedAt |-> now,
     itemsTotal |-> totals.itemsTotal,
     salesTotal |-> totals.salesTotal,
     salesProfit |-> totals.salesProfit,
     salesCount |-> totals.salesCount]

(***************************************************************************)
(* renderYearly: one row per month of the year, and their totals.          *)
(***************************************************************************)
monthsOfYear(year) == [i \in 1..MonthsPerYear |-> year * MonthsPerYear + (i - 1)]

\* yearlyRow whose fallback sums the sales of every month
yearlyRowAllSales(its, sl, snaps, m) ==
    IF m \in DOMAIN snaps
    THEN [month |-> m,
          itemsTotal |-> snaps[m].itemsTotal,
          salesTotal |-> snaps[m].salesTotal,
          salesProfit |-> snaps[m].salesProfit,
          combined |-> snaps[m].itemsTotal + snaps[m].salesTotal]
    ELSE LET itemsTotal == itemsTotalOver(its, DOMAIN its, m)
             salesTotal == sumTotal(sl)
         IN  [month |-> m,
              itemsTotal |-> itemsTotal,
              salesTotal |-> salesTotal,
              salesProfit |-> sumProfit(sl),
              combined |-> itemsTotal + salesTotal]

\* yearlyRow that computes every month live
yearlyRowLive(its, sl, snaps, m) ==
    LET salesRows == monthSalesOf(sl, m)
        itemsTotal == itemsTotalOver(its, DOMAIN its, m)
        salesTotal == sumTotal(salesRows)
    IN  [month |-> m,
         itemsTotal |-> itemsTotal,
         salesTotal |-> salesTotal,
         salesProfit |-> sumProfit(salesRows),
         combined |-> itemsTotal + salesTotal]

yearlyRow(its, sl, snaps, m) ==
    IF m \in DOMAIN snaps
    THEN [month |-> m,
          itemsTotal |-> snaps[m].itemsTotal,
          salesTotal |-> snaps[m].salesTotal,
          salesProfit |-> snaps[m].salesProfit,
          combined |-> snaps[m].itemsTotal + snaps[m].salesTotal]
    ELSE LET salesRows == monthSalesOf(sl, m)
             itemsTotal == itemsTotalOver(its, DOMAIN its, m)
             salesTotal == sumTotal(salesRows)
         IN  [month |-> m,
              itemsTotal |-> itemsTotal,
              salesTotal |-> salesTotal,
              salesProfit |-> sumProfit(salesRows),
              combined |-> itemsTotal + salesTotal]

RECURSIVE yearlyReduce(_)
\* rows.reduce((acc, r) => ({items: acc.items + r.itemsTotal, ...}), zeros)
yearlyReduce(rows) ==
    IF rows = <<>> THEN [items |-> 0, sales |-> 0, profit |-> 0, combined |-> 0]
    ELSE LET acc == yearlyReduce(SubSeq(rows, 1, Len(rows) - 1))
             r == rows[Len(rows)]
         IN  [items |-> acc.items + r.itemsTotal,
              sales |-> acc.sales + r.salesTotal,
              profit |-> acc.profit + r.salesProfit,
              combined |-> acc.combined + r.combined]

yearlyRows(its, sl, snaps, year) ==
    LET months == monthsOfYear(year)
    IN  [i \in 1..MonthsPerYear |-> yearlyRow(its, sl, snaps, months[i])]

yearlyTotals(its, sl, snaps, year) == yearlyReduce(yearlyRows(its, sl, snaps, year))


(***************************************************************************)
(* The handlers. Each reads the stored document (state = loadState()) and  *)
(* the values of its fields, and gives the document it leaves in storage   *)
(* and how it ended:                                                       *)
(*   "saved"    it wrote the document back (saveState),                    *)
(*   "invalid"  it alerted about its input and returned,                   *)
(*   "notfound" it found no such item and returned,                        *)
(*   "noop"     it returned without writing for another reason.            *)
(***************************************************************************)
Keys == {normalizeName(n) : n \in NameInputs} \ {<<>>}

\* state.items[key] = item
WithItem(state, key, item) == [state EXCEPT !.items = Put(@, key, item)]

\* addForm 'submit'
addFormSubmit(state, now, nameIn, priceTok, qtyTok, date) ==
    LET name == trim(nameIn)
        price == parseFloat(priceTok)
        qty == parseInt(qtyTok)
    IN  IF name = <<>> \/ isNaN(price) \/ isNaN(qty) \/ qty[1] <= 0
        THEN [res |-> "invalid", state |-> state, key |-> <<>>]
        ELSE LET monthKey == ym(date, now)
                 key == normalizeName(name)
             IN  IF key \notin DOMAIN state.items
                 THEN [res |-> "saved", key |-> key,
                       state |-> WithItem(state, key,
                           [name |-> trim(name),
                            priceHistory |-> <<[price |-> price[1], date |-> ymd(date, now)]>>,
                            quantities |-> Put(<<>>, monthKey, qty[1]),
                            qtyHistory |-> <<[month |-> monthKey, date |-> ymd(date, now),
                                              delta |-> qty[1], source |-> "addForm"]>>])]
                 ELSE LET item == state.items[key]
                          latestPrice == getLatestPrice(item)
                          hist == IF latestPrice # price[1]
                                  THEN Append(item.priceHistory,
                                              [price |-> price[1], date |-> ymd(date, now)])
                                  ELSE item.priceHistory
                      IN  [res |-> "saved", key |-> key,
                           state |-> WithItem(state, key,
                               [name |-> item.name,
                                priceHistory |-> hist,
                                quantities |-> Put(item.quantities, monthKey,
                                                   qtyOf(item, monthKey) + qty[1]),
                                qtyHistory |-> logQuantityChange(item, monthKey,
                                                   ymd(date, now), qty[1], "addForm")])]

\* updateForm 'submit' that files the price under a new item when it finds none
updateFormSubmitCreating(state, now, nameIn, priceTok, date) ==
    LET name == trim(nameIn)
        price == parseFloat(priceTok)
        key == normalizeName(name)
        entry == [price |-> price[1], date |-> ymd(date, now)]
    IN  IF name = <<>> \/ isNaN(price)
        THEN [res |-> "invalid", state |-> state, key |-> <<>>]
        ELSE IF key \notin DOMAIN state.items
        THEN [res |-> "notfound", key |-> key,
              state |-> WithItem(state, key,
                  [name |-> name, priceHistory |-> <<entry>>,
                   quantities |-> <<>>, qtyHistory |-> <<>>])]
        ELSE [res |-> "saved", key |-> key,
              state |-> [state EXCEPT !.items[key].priceHistory = Append(@, entry)]]

\* updateForm 'submit' that skips a price equal to the latest, as addForm does
updateFormSubmitDedup(state, now, nameIn, priceTok, date) ==
    LET name == trim(nameIn)
        price == parseFloat(priceTok)
        key == normalizeName(name)
    IN  IF name = <<>> \/ isNaN(price)
        THEN [res |-> "invalid", state |-> state, key |-> <<>>]
        ELSE IF key \notin DOMAIN state.items
        THEN [res |-> "notfound", state |-> state, key |-> key]
        ELSE IF getLatestPrice(state.items[key]) = price[1]
        THEN [res |-> "saved", key |-> key, state |-> state]
        ELSE [res |-> "saved", key |-> key,
              state |-> [state EXCEPT !.items[key].priceHistory =
                            Append(@, [price |-> price[1], date |-> ymd(date, now)])]]

\* updateForm 'submit'
updateFormSubmit(state, now, nameIn, priceTok, date) ==
    LET name == trim(nameIn)
        price == parseFloat(priceTok)
        key == normalizeName(name)
    IN  IF name = <<>> \/ isNaN(price)
        THEN [res |-> "invalid", state |-> state, key |-> <<>>]
        ELSE IF key \notin DOMAIN state.items
        THEN [res |-> "notfound", state |-> state, key |-> key]
        ELSE [res |-> "saved", key |-> key,
              state |-> [state EXCEPT !.items[key].priceHistory =
                            Append(@, [price |-> price[1], date |-> ymd(date, now)])]]

\* delete-selected 'click' that also drops the sales of the deleted items
deleteSelectedWithSales(state, checked, confirmed) ==
    IF checked = {} THEN [res |-> "invalid", state |-> state]
    ELSE IF ~confirmed THEN [res |-> "noop", state |-> state]
    ELSE [res |-> "saved",
          state |-> [state EXCEPT
              !.items = Remove(@, checked),
              !.sales = SelectSeq(@, LAMBDA s : normalizeName(s.item) \notin checked)]]

\* delete-selected 'click' that deletes one of the checked items only
deleteSelectedFirstOnly(state, checked, confirmed) ==
    IF checked = {} THEN [res |-> "invalid", state |-> state]
    ELSE IF ~confirmed THEN [res |-> "noop", state |-> state]
    ELSE [res |-> "saved",
          state |-> [state EXCEPT !.items = Remove(@, {CHOOSE k \in checked : TRUE})]]

\* delete-selected 'click': the checked keys, and the answer to confirm()
deleteSelectedClick(state, checked, confirmed) ==
    IF checked = {} THEN [res |-> "invalid", state |-> state]
    ELSE IF ~confirmed THEN [res |-> "noop", state |-> state]
    ELSE [res |-> "saved", state |-> [state EXCEPT !.items = Remove(@, checked)]]

\* items-table 'input' on input.inline-qty
inlineQtyInput(state, now, key, qtyTok, monthIn) ==
    LET parsed == parseInt(qtyTok)
        qty == IF isNaN(parsed) \/ parsed[1] < 0 THEN 0 ELSE parsed[1]
        month == monthField(monthIn, now)
    IN  IF key \notin DOMAIN state.items
        THEN [res |-> "notfound", state |-> state, month |-> month]
        ELSE LET item == state.items[key]
                 current == qtyOf(item, month)
                 delta == qty - current
             IN  [res |-> "saved", month |-> month,
                  state |-> WithItem(state, key,
                      [name |-> item.name,
                       priceHistory |-> item.priceHistory,
                       quantities |-> Put(item.quantities, month, qty),
                       qtyHistory |-> logQuantityChange(item, month, now, delta, "inlineEdit")])]

\* items-table 'change' on input.inline-price that keeps the new price alone
inlinePriceChangeReplacing(state, now, key, priceTok) ==
    LET price == parseFloat(priceTok)
    IN  IF isNaN(price) \/ price[1] < 0 THEN [res |-> "invalid", state |-> state]
        ELSE IF key \notin DOMAIN state.items THEN [res |-> "notfound", state |-> state]
        ELSE IF getLatestPrice(state.items[key]) # price[1]
        THEN [res |-> "saved",
              state |-> [state EXCEPT !.items[key].priceHistory =
                            <<[price |-> price[1], date |-> now]>>]]
        ELSE [res |-> "noop", state |-> state]

\* items-table 'change' on input.inline-price
inlinePriceChange(state, now, key, priceTok) ==
    LET price == parseFloat(priceTok)
    IN  IF isNaN(price) \/ price[1] < 0 THEN [res |-> "invalid", state |-> state]
        ELSE IF key \notin DOMAIN state.items THEN [res |-> "notfound", state |-> state]
        ELSE IF getLatestPrice(state.items[key]) # price[1]
        THEN [res |-> "saved",
              state |-> [state EXCEPT !.items[key].priceHistory =
                            Append(@, [price |-> price[1], date |-> now])]]
        ELSE [res |-> "noop", state |-> state]

\* items-table 'click' on button.qty-dec (dec = TRUE) or button.qty-inc
qtyStepClick(state, now, key, dec, monthIn) ==
    LET month == monthField(monthIn, now)
    IN  IF key \notin DOMAIN state.items
        THEN [res |-> "notfound", state |-> state, month |-> month]
        ELSE LET item == state.items[key]
                 current == qtyOf(item, month)
                 next == IF dec THEN Max(0, current - 1) ELSE current + 1
                 delta == next - current
             IN  [res |-> "saved", month |-> month,
                  state |-> WithItem(state, key,
                      [name |-> item.name,
                       priceHistory |-> item.priceHistory,
                       quantities |-> Put(item.quantities, month, next),
                       qtyHistory |-> logQuantityChange(item, month, now, delta,
                                          IF dec THEN "minus" ELSE "plus")])]

\* autoProfit as a sale at price * qty of an item of cost costPerUnit computes it,
\* with a precedence slip
saleProfitSlip(price, qty, costPerUnit, manualProfitVal) ==
    IF manualProfitVal # <<>> /\ ~isNaN(manualProfitVal[1])
    THEN manualProfitVal[1][1] * qty
    ELSE price - costPerUnit * qty

\* the profit of a sale: manual (per piece) * qty, or (sale price - item cost) * qty;
\* manualProfitVal is <<>> for null and <<v>> for the parsed value v
saleProfit(price, qty, costPerUnit, manualProfitVal) ==
    LET autoProfit == (price - costPerUnit) * qty
    IN  IF manualProfitVal # <<>> /\ ~isNaN(manualProfitVal[1])
        THEN manualProfitVal[1][1] * qty
        ELSE autoProfit

\* the stock after a sale without the floor at zero
saleStockUnclamped(current, qty) == current - qty

\* the stock of the month after a sale of qty
saleStock(current, qty) == Max(0, current - qty)

\* saleForm 'submit' that takes the sold units off the stock of every month
saleFormSubmitAllMonths(state, now, in) ==
    LET buyer == trim(in.buyer)
        address == trim(in.address)
        contact == trim(in.contact)
        itemName == trim(in.item)
        price == parseFloat(in.price)
        qty == parseInt(in.qty)
        manualProfitVal == IF in.profit # "" THEN <<parseFloat(in.profit)>> ELSE <<>>
    IN  IF in.date = <<>> \/ buyer = <<>> \/ address = <<>> \/ contact = <<>>
           \/ itemName = <<>> \/ isNaN(price) \/ isNaN(qty) \/ qty[1] <= 0
        THEN [res |-> "invalid", state |-> state]
        ELSE LET monthKey == ym(in.date, now)
                 key == normalizeName(itemName)
             IN  IF key \notin DOMAIN state.items
                 THEN [res |-> "notfound", state |-> state]
                 ELSE LET item == state.items[key]
                          costPerUnit == getLatestPrice(item)
                          total == price[1] * qty[1]
                          profit == saleProfit(price[1], qty[1], costPerUnit, manualProfitVal)
                          months == (DOMAIN item.quantities) \cup {monthKey}
                          sold == [state EXCEPT !.sales = Append(@,
                               [date |-> ymd(in.date, now), buyer |-> buyer,
                                address |-> address, contact |-> contact,
                                item |-> item.name, price |-> price[1], qty |-> qty[1],
                                total |-> total, profit |-> profit,
                                profitIsManual |-> manualProfitVal # <<>>])]
                      IN  [res |-> "saved",
                           state |-> WithItem(sold, key,
                               [name |-> item.name,
                                priceHistory |-> item.priceHistory,
                                quantities |-> [m \in months |->
                                                   saleStock(qtyOf(item, m), qty[1])],
                                qtyHistory |-> logQuantityChange(item, monthKey,
                                                   ymd(in.date, now), 0 - qty[1], "sale")])]

\* saleForm 'submit'; in is the record of the field values
saleFormSubmit(state, now, in) ==
    LET buyer == trim(in.buyer)
        address == trim(in.address)
        contact == trim(in.contact)
        itemName == trim(in.item)
        price == parseFloat(in.price)
        qty == parseInt(in.qty)
        manualProfitVal == IF in.profit # "" THEN <<parseFloat(in.profit)>> ELSE <<>>
    IN  IF in.date = <<>> \/ buyer = <<>> \/ address = <<>> \/ contact = <<>>
           \/ itemName = <<>> \/ isNaN(price) \/ isNaN(qty) \/ qty[1] <= 0
        THEN [res |-> "invalid", state |-> state]
        ELSE LET monthKey == ym(in.date, now)
                 key == normalizeName(itemName)
             IN  IF key \notin DOMAIN state.items
                 THEN [res |-> "notfound", state |-> state]
                 ELSE LET item == state.items[key]
                          costPerUnit == getLatestPrice(item)
                          total == price[1] * qty[1]
                          profit == saleProfit(price[1], qty[1], costPerUnit, manualProfitVal)
                          current == qtyOf(item, monthKey)
                          sold == [state EXCEPT !.sales = Append(@,
                               [date |-> ymd(in.date, now), buyer |-> buyer,
                                address |-> address, contact |-> contact,
                                item |-> item.name, price |-> price[1], qty |-> qty[1],
                                total |-> total, profit |-> profit,
                                profitIsManual |-> manualProfitVal # <<>>])]
                      IN  [res |-> "saved",
                           state |-> WithItem(sold, key,
                               [name |-> item.name,
                                priceHistory |-> item.priceHistory,
                                quantities |-> Put(item.quantities, monthKey,
                                                   saleStock(current, qty[1])),
                                qtyHistory |-> logQuantityChange(item, monthKey,
                                                   ymd(in.date, now), 0 - qty[1], "sale")])]

\* renderYearly: `parseInt(year-input) || new Date().getFullYear()`
yearField(yearIn, now) == IF yearIn = <<>> THEN yearOf(ymOf(now)) ELSE yearIn[1]

\* renderMonthlyReport adding the valuation to the snapshot it finds
renderMonthlyReportAdding(state, now, monthIn) ==
    LET month == monthField(monthIn, now)
        totals == monthlyTotals(state.items, state.sales, month)
        found == IF month \in DOMAIN state.monthlySnapshots
                 THEN state.monthlySnapshots[month].itemsTotal ELSE 0
    IN  [res |-> "saved",
         month |-> month,
         totals |-> totals,
         state |-> [state EXCEPT !.monthlySnapshots =
                       Put(@, month, [snapshotOf(totals, now) EXCEPT
                                         !.itemsTotal = found + totals.itemsTotal])]]

\* renderMonthlyReport that starts the snapshots afresh with the month's
renderMonthlyReportFresh(state, now, monthIn) ==
    LET month == monthField(monthIn, now)
        totals == monthlyTotals(state.items, state.sales, month)
    IN  [res |-> "saved",
         month |-> month,
         totals |-> totals,
         state |-> [state EXCEPT !.monthlySnapshots = Put(<<>>, month, snapshotOf(totals, now))]]

\* renderMonthlyReport: the totals it shows, and the document it writes back
\* (newState = loadState() with the snapshot of the month replaced)
renderMonthlyReport(state, now, monthIn) ==
    LET month == monthField(monthIn, now)
        totals == monthlyTotals(state.items, state.sales, month)
    IN  [res |-> "saved",
         month |-> month,
         totals |-> totals,
         state |-> [state EXCEPT !.monthlySnapshots = Put(@, month, snapshotOf(totals, now))]]

\* renderYearly that keeps the rows it computed live as snapshots
renderYearlyCaching(state, now, yearIn) ==
    LET year == yearField(yearIn, now)
        rows == yearlyRows(state.items, state.sales, state.monthlySnapshots, year)
        months == {monthsOfYear(year)[i] : i \in 1..MonthsPerYear}
        cached == [m \in (DOMAIN state.monthlySnapshots) \cup months |->
                      IF m \in DOMAIN state.monthlySnapshots
                      THEN state.monthlySnapshots[m]
                      ELSE snapshotOf(monthlyTotals(state.items, state.sales, m), now)]
    IN  [year |-> year,
         rows |-> rows,
         totals |-> yearlyReduce(rows),
         state |-> [state EXCEPT !.monthlySnapshots = cached]]

\* renderYearly: the rows and totals it shows; it loads the document and
\* never saves it, so storage holds the document it loaded
renderYearly(state, now, yearIn) ==
    LET year == yearField(yearIn, now)
    IN  [year |-> year,
         rows |-> yearlyRows(state.items, state.sales, state.monthlySnapshots, year),
         totals |-> yearlyTotals(state.items, state.sales, state.monthlySnapshots, year),
         state |-> state]

(***************************************************************************)
(* The places that list the sales of a month.                              *)
(***************************************************************************)
\* state.sales.filter(s => ym(s.date) === month).sort(by date)
salesRowsByDate(sl, month) == sortByDate(monthSalesOf(sl, month))

\* renderSalesTable: the rows of the table
renderSalesTable(state, now, monthIn) ==
    salesRowsByDate(state.sales, monthField(monthIn, now))

\* renderSalesReport: the rows of the report
renderSalesReport(state, now, monthIn) ==
    salesRowsByDate(state.sales, monthField(monthIn, now))

\* exportSalesText: the sales lines of the text
exportSalesText(state, now, monthIn) ==
    salesRowsByDate(state.sales, monthField(monthIn, now))

\* renderMonthlyReport: the rows under 'Sales Details' (monthSales.map)
monthlyReportSalesRows(state, now, monthIn) ==
    monthSalesOf(state.sales, monthField(monthIn, now))

\* loadState() on storage that holds nothing
EmptyState == [items |-> <<>>, sales |-> <<>>, monthlySnapshots |-> <<>>]

(***************************************************************************)
(* The inputs of the handlers. Each form has a base submission; the model  *)
(* submits the base with one field changed to each value of that field,    *)
(* and every combination of the fields whose interplay the handler's code  *)
(* depends on (price and date for the price history).                      *)
(***************************************************************************)
AddBase == [name |-> <<"a">>, price |-> "1", qty |-> "1", date |-> <<>>]
AddInputs ==
    [name : {<<"a">>}, price : {"1", "2"}, qty : {"1"}, date : DateInputs]
    \cup {[AddBase EXCEPT !.name = n] : n \in NameInputs}
    \cup {[AddBase EXCEPT !.price = t] : t \in PriceInputs}
    \cup {[AddBase EXCEPT !.qty = t] : t \in QtyInputs}

UpdateBase == [name |-> <<"a">>, price |-> "2", date |-> <<>>]
UpdateInputs ==
    [name : {<<"a">>}, price : {"1", "2"}, date : DateInputs]
    \cup {[UpdateBase EXCEPT !.name = n] : n \in NameInputs}
    \cup {[UpdateBase EXCEPT !.price = t] : t \in PriceInputs}

SaleBase == [date |-> <<1>>, buyer |-> <<"x">>, address |-> <<"x">>, contact |-> <<"x">>,
             item |-> <<"a">>, price |-> "2", qty |-> "1", profit |-> ""]
SaleInputs ==
    {[SaleBase EXCEPT !.date = d] : d \in DateInputs}
    \cup {[SaleBase EXCEPT !.buyer = t] : t \in TextInputs}
    \cup {[SaleBase EXCEPT !.address = t] : t \in TextInputs}
    \cup {[SaleBase EXCEPT !.contact = t] : t \in TextInputs}
    \cup {[SaleBase EXCEPT !.item = n] : n \in NameInputs}
    \cup {[SaleBase EXCEPT !.price = t] : t \in PriceInputs}
    \cup {[SaleBase EXCEPT !.qty = t] : t \in QtyInputs}
    \cup {[SaleBase EXCEPT !.profit = t] : t \in ProfitInputs}

InlineQtyBase == [key |-> <<"a">>, qty |-> "0", month |-> <<>>]
InlineQtyInputs ==
    {[InlineQtyBase EXCEPT !.key = k] : k \in Keys}
    \cup {[InlineQtyBase EXCEPT !.qty = t] : t \in QtyInputs}
    \cup {[InlineQtyBase EXCEPT !.month = m] : m \in MonthInputs}

StepInputs ==
    [key : Keys, dec : BOOLEAN, month : {<<>>}]
    \cup [key : {<<"a">>}, dec : {TRUE}, month : MonthInputs]

YearInputs == {<<>>} \cup {<<y>> : y \in Years}

(***************************************************************************)
(* The state machine.                                                      *)
(*   items, sales, monthlySnapshots  the document in localStorage          *)
(*   nops  how many times a handler has written the document               *)
(*   last  the handler that ran last and what it showed                    *)
(* A behaviour is a session on the day Today, which is what new Date()     *)
(* gives. A handler that returns without writing or showing anything       *)
(* leaves every variable as it is.                                         *)
(***************************************************************************)
\* a page load on empty storage: the initial renders at the end of the script
\* run renderMonthlyReport, which writes the snapshot of the report month
Init ==
    /\ \E monthIn \in MonthInputs :
          LET r == renderMonthlyReport(EmptyState, Today, monthIn)
          IN  /\ items = r.state.items
              /\ sales = r.state.sales
              /\ monthlySnapshots = r.state.monthlySnapshots
    /\ nops = 0
    /\ last = [op |-> "load"]

\* the stored document, as loadState() gives it
stored == [items |-> items, sales |-> sales, monthlySnapshots |-> monthlySnapshots]

\* the document a handler leaves in storage
Leaves(state) ==
    /\ items' = state.items
    /\ sales' = state.sales
    /\ monthlySnapshots' = state.monthlySnapshots

\* a handler that ended with res counts, and is the last, if it wrote
Wrote(res, op) ==
    IF res = "saved"
    THEN /\ nops < MaxOps
         /\ nops' = nops + 1
         /\ last' = op
    ELSE UNCHANGED <<nops, last>>

AddItem ==
    \E in \in AddInputs :
        LET r == addFormSubmit(stored, Today, in.name, in.price, in.qty, in.date)
        IN  /\ Leaves(r.state)
            /\ Wrote(r.res,
                  [op |-> "add", key |-> r.key, month |-> ym(in.date, Today),
                   price |-> parseFloat(in.price)])

UpdatePrice ==
    \E in \in UpdateInputs :
        LET r == updateFormSubmit(stored, Today, in.name, in.price, in.date)
        IN  /\ Leaves(r.state)
            /\ Wrote(r.res, [op |-> "update", key |-> r.key])

DeleteSelected ==
    \E checked \in SUBSET Keys, confirmed \in BOOLEAN :
        LET r == deleteSelectedClick(stored, checked, confirmed)
        IN  /\ Leaves(r.state)
            /\ Wrote(r.res, [op |-> "delete", checked |-> checked])

InlineQty ==
    \E in \in InlineQtyInputs :
        LET r == inlineQtyInput(stored, Today, in.key, in.qty, in.month)
        IN  /\ Leaves(r.state)
            /\ Wrote(r.res, [op |-> "inlineQty", key |-> in.key, month |-> r.month])

InlinePrice ==
    \E key \in Keys, priceTok \in PriceInputs :
        LET r == inlinePriceChange(stored, Today, key, priceTok)
        IN  /\ Leaves(r.state)
            /\ Wrote(r.res, [op |-> "inlinePrice", key |-> key])

QtyStep ==
    \E in \in StepInputs :
        LET r == qtyStepClick(stored, Today, in.key, in.dec, in.month)
        IN  /\ Leaves(r.state)
            /\ Wrote(r.res, [op |-> "step", key |-> in.key, month |-> r.month])

RecordSale ==
    \E in \in SaleInputs :
        LET r == saleFormSubmit(stored, Today, in)
        IN  /\ Leaves(r.state)
            /\ Wrote(r.res,
                  [op |-> "sale", key |-> normalizeName(in.item),
                   month |-> ym(in.date, Today), profit |-> in.profit])

\* refresh-report 'click' (and every other caller of renderMonthlyReport)
MonthlyReport ==
    \E monthIn \in MonthInputs :
        LET r == renderMonthlyReport(stored, Today, monthIn)
        IN  /\ Leaves(r.state)
            /\ Wrote(r.res,
                  [op |-> "monthly", month |-> r.month, totals |-> r.totals,
                   again |-> last.op = "monthly" /\ last.month = r.month])

\* show-year 'click': renderYearly reads the document and writes nothing
YearlyReport ==
    \E yearIn \in YearInputs :
        LET r == renderYearly(stored, Today, yearIn)
        IN  /\ Leaves(r.state)
            /\ last' = [op |-> "yearly", year |-> r.year, totals |-> r.totals]
            /\ UNCHANGED nops

Next ==
    \/ AddItem
    \/ UpdatePrice
    \/ DeleteSelected
    \/ InlineQty
    \/ InlinePrice
    \/ QtyStep
    \/ RecordSale
    \/ MonthlyReport
    \/ YearlyReport

Spec == Init /\ [][Next]_vars

(***************************************************************************)
(* Properties.                                                             *)
(***************************************************************************)
RECURSIVE SumFn(_, _)
\* f[1] + ... + f[n]
SumFn(f, n) == IF n = 0 THEN 0 ELSE f[n] + SumFn(f, n - 1)

\* the years a report is asked for: those of the modelled days and the next
ReportYears == Years \cup {yearOf(ymOf(MaxDay - 1)) + 1}

\* what monthlyReport would report now for the i-th month of a year
MonthlyOf(year, i) == monthlyTotals(items, sales, monthsOfYear(year)[i])

\* the yearly totals are the sums of the 12 monthly totals of the year
YearlyIsSumOfMonthly(year) ==
    LET yt == renderYearly(stored, Today, <<year>>).totals
    IN  /\ yt.items = SumFn([i \in 1..MonthsPerYear |-> MonthlyOf(year, i).itemsTotal],
                            MonthsPerYear)
        /\ yt.sales = SumFn([i \in 1..MonthsPerYear |-> MonthlyOf(year, i).salesTotal],
                            MonthsPerYear)
        /\ yt.profit = SumFn([i \in 1..MonthsPerYear |-> MonthlyOf(year, i).salesProfit],
                             MonthsPerYear)

\* every snapshot of the year holds the totals monthlyReport would report now
SnapshotsCurrent(year) ==
    \A i \in 1..MonthsPerYear :
        LET m == monthsOfYear(year)[i]
        IN  m \in DOMAIN monthlySnapshots =>
                /\ monthlySnapshots[m].itemsTotal = MonthlyOf(year, i).itemsTotal
                /\ monthlySnapshots[m].salesTotal = MonthlyOf(year, i).salesTotal
                /\ monthlySnapshots[m].salesProfit = MonthlyOf(year, i).salesProfit

\* C1 as claimed: in every reachable state the yearly totals of a year equal
\* the sum over its 12 months of the totals monthlyReport would report in
\* that state, also when a snapshot is older than the last change.
C1_YearlyIsSumOfMonthlyAlways == \A year \in ReportYears : YearlyIsSumOfMonthly(year)

\* C1 as amended: the yearly totals of a year equal the sum over its 12
\* months of the totals monthlyReport would report in that state whenever
\* every snapshot that exists for a month of the year is current (holds the
\* totals monthlyReport would report now); months without a snapshot are
\* computed live.
C1_YearlyIsSumOfMonthlyWhenCurrent ==
    \A year \in ReportYears : SnapshotsCurrent(year) => YearlyIsSumOfMonthly(year)

\* the yearly report was shown for a year with sales, with a current snapshot
\* of a month with stock and a month with stock and no snapshot
C1_Witness ==
    /\ last.op = "yearly"
    /\ SnapshotsCurrent(last.year)
    /\ last.totals.items > 0
    /\ \E i \in 1..MonthsPerYear :
          /\ monthsOfYear(last.year)[i] \in DOMAIN monthlySnapshots
          /\ monthlySnapshots[monthsOfYear(last.year)[i]].itemsTotal > 0
    /\ \E i \in 1..MonthsPerYear :
          /\ monthsOfYear(last.year)[i] \notin DOMAIN monthlySnapshots
          /\ MonthlyOf(last.year, i).itemsTotal > 0

RECURSIVE SumDeltas(_, _)
\* the sum of the deltas the audit log holds for a month
SumDeltas(log, month) ==
    IF log = <<>> THEN 0
    ELSE SumDeltas(SubSeq(log, 1, Len(log) - 1), month)
         + (IF log[Len(log)].month = month THEN log[Len(log)].delta ELSE 0)

\* C2: for every item and every month the deltas of qtyHistory for that
\* month sum to quantities[month] (0 when absent).
C2_AuditLogSumsToStock ==
    \A k \in DOMAIN items : \A m \in Months :
        SumDeltas(items[k].qtyHistory, m) = qtyOf(items[k], m)


\* C3: for an existing item, the second of two consecutive upsertItem calls
\* with the same price never adds a price-history entry, whatever the dates;
\* an upsertItem call whose price differs from the resolved latest price adds
\* exactly one entry.
C3_SecondUpsertAddsNoEntry ==
    [][(last'.op = "add" /\ last'.key \in DOMAIN items) =>
          LET k == last'.key
              before == Len(items[k].priceHistory)
              after == Len(items'[k].priceHistory)
          IN  /\ (last.op = "add" /\ last.key = k /\ last.price = last'.price)
                    => after = before
              /\ last'.price[1] # getLatestPrice(items[k]) => after = before + 1]_vars

\* the entries of a history that have its maximum date
MaxDateEntries(hist) ==
    {i \in 1..Len(hist) : \A j \in 1..Len(hist) : hist[j].date <= hist[i].date}

\* the price of the entry with the maximum date, the one inserted last among
\* those that share it; 0 for an empty history
PriceAtMaxDate(hist) ==
    IF hist = <<>> THEN 0
    ELSE LET S == MaxDateEntries(hist)
         IN  hist[CHOOSE i \in S : \A j \in S : j <= i].price

\* C4: resolveCurrentPrice gives the price of the entry with the maximum
\* date, the last inserted of the entries that share it, and 0 for an empty
\* history, for every insertion order.
C4_LatestPriceIsAtMaxDate ==
    last.op = "getLatestPrice" =>
        last.price = PriceAtMaxDate(items[last.key].priceHistory)

\* the price was resolved for a history whose two first entries share the
\* maximum date with different prices and whose last entry is dated earlier
C4_Witness ==
    /\ last.op = "getLatestPrice"
    /\ LET h == items[last.key].priceHistory
       IN  /\ Len(h) = 3
           /\ h[1].date = h[2].date
           /\ h[1].price # h[2].price
           /\ h[3].date < h[2].date
           /\ last.price = h[2].price

\* C5: the stored profit of a sale is (price - costPerUnit) * qty when the
\* manual profit field was empty, costPerUnit being the resolved price of the
\* item when the sale was made, and manualProfitPerUnit * qty when the field
\* held a number; no later operation changes the stored profit of a sale.
C5_ProfitFixedAtSale ==
    [][/\ last'.op = "sale" =>
              LET s == sales'[Len(sales')]
                  costPerUnit == PriceAtMaxDate(items[last'.key].priceHistory)
                  manual == parseFloat(last'.profit)
              IN  /\ Len(sales') = Len(sales) + 1
                  /\ last'.profit = "" => s.profit = (s.price - costPerUnit) * s.qty
                  /\ ~isNaN(manual) => s.profit = manual[1] * s.qty
       /\ \A i \in 1..Len(sales) :
              /\ i <= Len(sales')
              /\ sales'[i].profit = sales[i].profit]_vars

\* a price update followed a sale whose profit was computed from the cost:
\* the stored profit no longer matches the latest price
C5_Witness ==
    /\ last.op = "update"
    /\ \E i \in 1..Len(sales) : \E k \in DOMAIN items :
          /\ items[k].name = sales[i].item
          /\ ~sales[i].profitIsManual
          /\ sales[i].profit # 0
          /\ sales[i].profit # (sales[i].price - getLatestPrice(items[k])) * sales[i].qty

\* C6: every quantities[month] of every item is >= 0 in every reachable
\* state; a sale of more than the stock leaves the stock at 0.
C6_StockNeverNegative ==
    \A k \in DOMAIN items : \A m \in DOMAIN items[k].quantities :
        items[k].quantities[m] >= 0

\* a sale of more units than were in stock has left the stock at 0
C6_Witness ==
    /\ last.op = "sale"
    /\ qtyOf(items[last.key], last.month) = 0
    /\ SumDeltas(items[last.key].qtyHistory, last.month) < 0

RECURSIVE SumOver(_, _)
\* the sum of f[x] over the x in S
SumOver(S, f) ==
    IF S = {} THEN 0
    ELSE LET x == CHOOSE y \in S : TRUE
         IN  f[x] + SumOver(S \ {x}, f)

\* the sales of a month, by their place in the sales list
SalesIn(month) == {i \in 1..Len(sales) : ymOf(sales[i].date) = month}

\* the totals of a month as the report is specified
TotalsOf(month) ==
    LET stocked == {k \in DOMAIN items : qtyOf(items[k], month) > 0}
    IN  [itemsTotal |-> SumOver(stocked,
                                [k \in stocked |-> qtyOf(items[k], month)
                                                   * PriceAtMaxDate(items[k].priceHistory)]),
         salesTotal |-> SumOver(SalesIn(month), [i \in SalesIn(month) |-> sales[i].total]),
         salesProfit |-> SumOver(SalesIn(month), [i \in SalesIn(month) |-> sales[i].profit]),
         salesCount |-> Cardinality(SalesIn(month))]

\* the ledger holds one item k, added once in month m, and one sale, of that
\* item in month m, of no more than was added, with no manual profit
AddedThenSold(k, m) ==
    /\ DOMAIN items = {k}
    /\ Len(items[k].priceHistory) = 1
    /\ Len(items[k].qtyHistory) = 2
    /\ items[k].qtyHistory[1].source = "addForm"
    /\ items[k].qtyHistory[1].month = m
    /\ items[k].qtyHistory[2].source = "sale"
    /\ items[k].qtyHistory[2].month = m
    /\ 0 - items[k].qtyHistory[2].delta <= items[k].qtyHistory[1].delta
    /\ Len(sales) = 1
    /\ sales[1].item = items[k].name
    /\ sales[1].qty = 0 - items[k].qtyHistory[2].delta
    /\ ~sales[1].profitIsManual

\* C7: monthlyReport(month) reports itemsTotal = the sum over the items in
\* stock of stock * resolved price, salesTotal, salesProfit and salesCount of
\* the sales dated in the month; after adding a new item (price p, qty q) and
\* one sale of k <= q units at price s in the same month it reports
\* (q-k)*p, s*k, (s-p)*k and 1.
C7_MonthlyReportTotals ==
    /\ \A m \in Months : monthlyTotals(items, sales, m) = TotalsOf(m)
    /\ last.op = "monthly" =>
          /\ last.totals = TotalsOf(last.month)
          /\ \A key \in DOMAIN items :
                AddedThenSold(key, last.month) =>
                    LET p == items[key].priceHistory[1].price
                        q == items[key].qtyHistory[1].delta
                        k == sales[1].qty
                        s == sales[1].price
                    IN  last.totals = [itemsTotal |-> (q - k) * p,
                                       salesTotal |-> s * k,
                                       salesProfit |-> (s - p) * k,
                                       salesCount |-> 1]

\* the report was rendered after an item was added and part of it sold
C7_Witness ==
    /\ last.op = "monthly"
    /\ \E key \in DOMAIN items : AddedThenSold(key, last.month)
    /\ last.totals.itemsTotal > 0
    /\ last.totals.salesProfit > 0
    /\ last.totals.salesCount = 1

\* the four totals of a snapshot
SnapshotTotals(snap) ==
    [itemsTotal |-> snap.itemsTotal, salesTotal |-> snap.salesTotal,
     salesProfit |-> snap.salesProfit, salesCount |-> snap.salesCount]

\* C8: a monthlyReport(month) call leaves the document such that the next
\* call, with no mutation in between, reports the same four totals, and
\* leaves a snapshot of the month with those four totals.
C8_MonthlyReportIdempotent ==
    [][last'.op = "monthly" =>
          LET again == renderMonthlyReport(stored', Today, <<last'.month>>)
          IN  /\ again.totals = last'.totals
              /\ SnapshotTotals(monthlySnapshots'[last'.month]) = last'.totals
              /\ SnapshotTotals(again.state.monthlySnapshots[last'.month]) = last'.totals
      ]_vars

\* the report of a month with stock was rendered twice in a row
C8_Witness ==
    /\ last.op = "monthly"
    /\ last.again
    /\ last.totals.itemsTotal > 0
    /\ SnapshotTotals(monthlySnapshots[last.month]) = last.totals

\* C9: the sales list is append-only: every operation leaves the previous
\* sales, unchanged, as a prefix of the new list.
C9_SalesAppendOnly ==
    [][/\ Len(sales') >= Len(sales)
       /\ SubSeq(sales', 1, Len(sales)) = sales]_vars

\* items were deleted and a sale that names one of them is still there
C9_Witness ==
    /\ last.op = "delete"
    /\ \E i \in 1..Len(sales) :
          /\ normalizeName(sales[i].item) \in last.checked
          /\ normalizeName(sales[i].item) \notin DOMAIN items

\* C10: recordSale rejects, appending no sale and leaving the document
\* unchanged, a call whose date, buyer, address, contact or item name is
\* empty, whose price is not a number >= 0, or whose qty is not a positive
\* integer.
C10_InvalidSaleRejected ==
    \A in \in SaleInputs :
        LET r == saleFormSubmit(stored, Today, in)
            price == parseFloat(in.price)
            qty == parseInt(in.qty)
        IN  (\/ in.date = <<>>
             \/ trim(in.buyer) = <<>>
             \/ trim(in.address) = <<>>
             \/ trim(in.contact) = <<>>
             \/ trim(in.item) = <<>>
             \/ isNaN(price)
             \/ (~isNaN(price) /\ price[1] < 0)
             \/ isNaN(qty)
             \/ (~isNaN(qty) /\ qty[1] <= 0))
            => (r.res # "saved" /\ r.state = stored)

\* the ways a handler ends without writing the document because it failed
Failed == {"invalid", "notfound"}

\* C11: every operation that fails (validation failure in add-item,
\* update-price or sale; unknown item in update-price, quantity edit, stepper
\* or sale) leaves the persisted document (items, sales, monthlySnapshots)
\* exactly as it was before the call.
C11_FailedLeavesDocument ==
    /\ \A in \in AddInputs :
          LET r == addFormSubmit(stored, Today, in.name, in.price, in.qty, in.date)
          IN  r.res \in Failed => r.state = stored
    /\ \A in \in UpdateInputs :
          LET r == updateFormSubmit(stored, Today, in.name, in.price, in.date)
          IN  r.res \in Failed => r.state = stored
    /\ \A in \in SaleInputs :
          LET r == saleFormSubmit(stored, Today, in)
          IN  r.res \in Failed => r.state = stored
    /\ \A in \in InlineQtyInputs :
          LET r == inlineQtyInput(stored, Today, in.key, in.qty, in.month)
          IN  r.res \in Failed => r.state = stored
    /\ \A in \in StepInputs :
          LET r == qtyStepClick(stored, Today, in.key, in.dec, in.month)
          IN  r.res \in Failed => r.state = stored

\* a ledger with an item, a sale and a snapshot on which a submission of each
\* form fails its validation and each handler that names an item finds none
C11_Witness ==
    /\ DOMAIN items # {}
    /\ sales # <<>>
    /\ DOMAIN monthlySnapshots # {}
    /\ \E in \in AddInputs :
          addFormSubmit(stored, Today, in.name, in.price, in.qty, in.date).res = "invalid"
    /\ \E in \in UpdateInputs :
          updateFormSubmit(stored, Today, in.name, in.price, in.date).res = "invalid"
    /\ \E in \in UpdateInputs :
          updateFormSubmit(stored, Today, in.name, in.price, in.date).res = "notfound"
    /\ \E in \in SaleInputs : saleFormSubmit(stored, Today, in).res = "invalid"
    /\ \E in \in SaleInputs : saleFormSubmit(stored, Today, in).res = "notfound"
    /\ \E in \in InlineQtyInputs :
          inlineQtyInput(stored, Today, in.key, in.qty, in.month).res = "notfound"
    /\ \E in \in StepInputs :
          qtyStepClick(stored, Today, in.key, in.dec, in.month).res = "notfound"

\* C13: in every reachable state every price-history entry of every item
\* has price >= 0.
C13_PricesNonNegative ==
    \A k \in DOMAIN items : \A i \in 1..Len(items[k].priceHistory) :
        items[k].priceHistory[i].price >= 0

\* C14: for every recorded sale profitIsManual is true exactly when the
\* stored profit was computed as manualProfitPerUnit * qty and false exactly
\* when it was computed as (price - costPerUnit) * qty, for every value of
\* the manual-profit input, also one that is not empty and is not a number.
C14_ProfitIsManualTellsHow ==
    [][last'.op = "sale" =>
          LET s == sales'[Len(sales')]
              costPerUnit == PriceAtMaxDate(items[last'.key].priceHistory)
              manual == parseFloat(last'.profit)
          IN  /\ s.profitIsManual => (~isNaN(manual) /\ s.profit = manual[1] * s.qty)
              /\ ~s.profitIsManual => s.profit = (s.price - costPerUnit) * s.qty
      ]_vars

\* C15: every audit entry appended by setQuantity (inline edit),
\* adjustQuantity (steppers) or recordSale has delta = the new stock minus
\* the stock before the call for that item and month, and none is appended
\* when the difference is 0; for recordSale the new stock is
\* max(0, current - qty) and the entry has source "sale".
C15_AuditDeltaIsStockChange ==
    [][last'.op \in {"inlineQty", "step", "sale"} =>
          LET k == last'.key
              m == last'.month
              before == qtyOf(items[k], m)
              after == qtyOf(items'[k], m)
              log == items[k].qtyHistory
              logNow == items'[k].qtyHistory
          IN  /\ after = before => logNow = log
              /\ after # before =>
                    /\ Len(logNow) = Len(log) + 1
                    /\ SubSeq(logNow, 1, Len(log)) = log
                    /\ logNow[Len(logNow)].month = m
                    /\ logNow[Len(logNow)].delta = after - before
              /\ last'.op = "sale" =>
                    /\ after = Max(0, before - sales'[Len(sales')].qty)
                    /\ after # before => logNow[Len(logNow)].source = "sale"
      ]_vars

\* rows are the sales dated in the month, ordered by date, those of one date
\* in the order of the sales list
IsSalesForMonth(rows, month) ==
    /\ Len(rows) = Cardinality(SalesIn(month))
    /\ \E f \in [1..Len(rows) -> SalesIn(month)] :
          /\ \A i \in 1..Len(rows) : rows[i] = sales[f[i]]
          /\ \A i, j \in 1..Len(rows) :
                i < j => \/ sales[f[i]].date < sales[f[j]].date
                         \/ (sales[f[i]].date = sales[f[j]].date /\ f[i] < f[j])

\* C16: the sales rows of a month are the sales whose date falls in the
\* month, ordered by date ascending with ties in insertion order, in every
\* place that lists them: the sales table, the sales report, the sales text
\* export and the sales rows of monthlyReport.
C16_SalesRowsByDateEverywhere ==
    \A monthIn \in MonthInputs :
        LET month == monthField(monthIn, Today)
        IN  /\ IsSalesForMonth(renderSalesTable(stored, Today, monthIn), month)
            /\ IsSalesForMonth(renderSalesReport(stored, Today, monthIn), month)
            /\ IsSalesForMonth(exportSalesText(stored, Today, monthIn), month)
            /\ IsSalesForMonth(monthlyReportSalesRows(stored, Today, monthIn), month)

\* C16 without the monthly report: the three places that sort do list the
\* sales of the month by date (kept to tell which place fails)
SortedPlacesListByDate ==
    \A monthIn \in MonthInputs :
        LET month == monthField(monthIn, Today)
        IN  /\ IsSalesForMonth(renderSalesTable(stored, Today, monthIn), month)
            /\ IsSalesForMonth(renderSalesReport(stored, Today, monthIn), month)
            /\ IsSalesForMonth(exportSalesText(stored, Today, monthIn), month)

\* C17: updatePrice on an existing item with a valid price appends exactly
\* one price-history entry, also when the price equals the resolved latest
\* price; on an unknown item it appends nothing and leaves the document
\* unchanged.
C17_UpdateAlwaysAppends ==
    \A in \in UpdateInputs :
        LET r == updateFormSubmit(stored, Today, in.name, in.price, in.date)
            price == parseFloat(in.price)
            key == normalizeName(in.name)
        IN  (trim(in.name) # <<>> /\ ~isNaN(price) /\ price[1] >= 0) =>
                IF key \in DOMAIN items
                THEN /\ r.res = "saved"
                     /\ r.state.items[key].priceHistory =
                            Append(items[key].priceHistory,
                                   [price |-> price[1], date |-> ymd(in.date, Today)])
                     /\ r.state = [stored EXCEPT !.items[key].priceHistory =
                                                    r.state.items[key].priceHistory]
                ELSE /\ r.res = "notfound"
                     /\ r.state = stored

\* the update-price form has appended an entry whose price was already the
\* resolved latest price of the item, while another item is unknown
C17_Witness ==
    /\ last.op = "update"
    /\ LET h == items[last.key].priceHistory
       IN  /\ Len(h) >= 2
           /\ h[Len(h)].price = PriceAtMaxDate(SubSeq(h, 1, Len(h) - 1))
    /\ \E in \in UpdateInputs :
          updateFormSubmit(stored, Today, in.name, in.price, in.date).res = "notfound"

\* C18: monthlyReport(month) changes nothing in the document except
\* monthlySnapshots[month]: items, sales and the snapshots of all other
\* months are unchanged, and the written snapshot's itemsTotal, salesTotal,
\* salesProfit and salesCount equal the totals the same call reported.
C18_MonthlyReportWritesItsSnapshotOnly ==
    [][last'.op = "monthly" =>
          /\ items' = items
          /\ sales' = sales
          /\ DOMAIN monthlySnapshots' = (DOMAIN monthlySnapshots) \cup {last'.month}
          /\ \A m \in (DOMAIN monthlySnapshots) \ {last'.month} :
                monthlySnapshots'[m] = monthlySnapshots[m]
          /\ SnapshotTotals(monthlySnapshots'[last'.month]) = last'.totals
      ]_vars

\* the report of a month with a sale was rendered in a ledger with an item
\* and the snapshot of another month
C18_Witness ==
    /\ last.op = "monthly"
    /\ last.totals.salesCount > 0
    /\ DOMAIN items # {}
    /\ \E m \in DOMAIN monthlySnapshots : m # last.month
    /\ SnapshotTotals(monthlySnapshots[last.month]) = last.totals

\* C19: yearlyReport(year) is read-only: it never writes or changes items,
\* sales or any monthly snapshot, also for months it computes by the live
\* fallback; for a month with no snapshot its row equals the totals
\* monthlyReport would compute for that month in the current state.
C19_YearlyReportReadOnly ==
    [][last'.op = "yearly" =>
          /\ items' = items
          /\ sales' = sales
          /\ monthlySnapshots' = monthlySnapshots
          /\ \A i \in 1..MonthsPerYear :
                LET m == monthsOfYear(last'.year)[i]
                    row == yearlyRows(items, sales, monthlySnapshots, last'.year)[i]
                    live == monthlyTotals(items, sales, m)
                IN  m \notin DOMAIN monthlySnapshots =>
                        row = [month |-> m,
                               itemsTotal |-> live.itemsTotal,
                               salesTotal |-> live.salesTotal,
                               salesProfit |-> live.salesProfit,
                               combined |-> live.itemsTotal + live.salesTotal]
      ]_vars

\* the yearly report was shown for a year with a month that has stock, a
\* sale and no snapshot, and the month still has no snapshot
C19_Witness ==
    /\ last.op = "yearly"
    /\ \E i \in 1..MonthsPerYear :
          LET m == monthsOfYear(last.year)[i]
          IN  /\ m \notin DOMAIN monthlySnapshots
              /\ TotalsOf(m).itemsTotal > 0
              /\ TotalsOf(m).salesCount > 0
    /\ last.totals.sales > 0

\* C20: deleteItems removes each selected key from items together with its
\* price history, quantities and audit log, so the deleted item contributes
\* nothing to any later monthlyReport item valuation; items not selected,
\* the sales list and the monthly snapshots are unchanged.
C20_DeleteRemovesSelectedOnly ==
    [][last'.op = "delete" =>
          LET kept == (DOMAIN items) \ last'.checked
          IN  /\ DOMAIN items' = kept
              /\ \A k \in kept : items'[k] = items[k]
              /\ sales' = sales
              /\ monthlySnapshots' = monthlySnapshots
              /\ \A m \in Months :
                    LET stocked == {k \in kept : qtyOf(items[k], m) > 0}
                    IN  renderMonthlyReport(stored', Today, <<m>>).totals.itemsTotal
                            = SumOver(stocked,
                                      [k \in stocked |-> qtyOf(items[k], m)
                                           * PriceAtMaxDate(items[k].priceHistory)])
      ]_vars

\* the checked items were deleted after a report had valued their stock: the
\* snapshot still holds that valuation and a report would now value nothing
C20_Witness ==
    /\ last.op = "delete"
    /\ last.checked # {}
    /\ last.checked \cap DOMAIN items = {}
    /\ \E m \in DOMAIN monthlySnapshots :
          /\ monthlySnapshots[m].itemsTotal > 0
          /\ TotalsOf(m).itemsTotal = 0

\* two characters that are equal up to case
SameLetter(c, d) == c = d \/ {c, d} = {"a", "A"} \/ {c, d} = {"b", "B"}

\* key is name without the spaces around it and with no capital letter
IsFoldedName(key, name) ==
    /\ \A i \in 1..Len(key) : key[i] \notin {"A", "B"}
    /\ \E lo \in 1..(Len(name) + 1) : \E hi \in 0..Len(name) :
          /\ \A i \in 1..Len(name) : (i < lo \/ i > hi) => name[i] = " "
          /\ lo <= hi => (name[lo] # " " /\ name[hi] # " ")
          /\ Len(key) = (IF lo <= hi THEN hi - lo + 1 ELSE 0)
          /\ \A i \in 1..Len(key) : SameLetter(key[i], name[lo + i - 1])

\* two names with the same folded name
SameItemName(n1, n2) ==
    \E key \in Keys \cup {<<>>} : IsFoldedName(key, n1) /\ IsFoldedName(key, n2)

\* C21: in every reachable state every key of items equals the trimmed,
\* lower-cased name of the item stored under it, so no two items have names
\* that are equal up to case and surrounding whitespace, and upsertItem,
\* updatePrice and recordSale called with any casing or padding of the name
\* of an item act on that same item.
C21_KeysAreFoldedNames ==
    /\ \A k \in DOMAIN items : IsFoldedName(k, items[k].name)
    /\ \A k1, k2 \in DOMAIN items :
          k1 # k2 => ~SameItemName(items[k1].name, items[k2].name)
    /\ \A k \in DOMAIN items : \A n \in NameInputs :
          SameItemName(n, items[k].name) =>
              /\ \A in \in AddInputs :
                    LET r == addFormSubmit(stored, Today, n, in.price, in.qty, in.date)
                        byKey == addFormSubmit(stored, Today, k, in.price, in.qty, in.date)
                    IN  /\ r = byKey
                        /\ r.res = "saved" =>
                              /\ r.key = k
                              /\ DOMAIN r.state.items = DOMAIN items
              /\ \A in \in UpdateInputs :
                    LET r == updateFormSubmit(stored, Today, n, in.price, in.date)
                        byKey == updateFormSubmit(stored, Today, k, in.price, in.date)
                    IN  /\ r = byKey
                        /\ r.res = "saved" =>
                              /\ r.key = k
                              /\ DOMAIN r.state.items = DOMAIN items
              /\ \A in \in SaleInputs :
                    LET r == saleFormSubmit(stored, Today, [in EXCEPT !.item = n])
                        byKey == saleFormSubmit(stored, Today, [in EXCEPT !.item = k])
                    IN  /\ r = byKey
                        /\ r.res = "saved" =>
                              /\ DOMAIN r.state.items = DOMAIN items
                              /\ r.state.sales[Len(r.state.sales)].item = items[k].name

\* an item entered as ' A' is stored under the key 'a', has been added to
\* again and sold, and the forms accept the name as 'a' and as ' A'
C21_Witness ==
    /\ DOMAIN items = {<<"a">>}
    /\ items[<<"a">>].name = <<"A">>
    /\ Len(items[<<"a">>].qtyHistory) >= 3
    /\ sales # <<>>
    /\ sales[1].item = <<"A">>
    /\ \A n \in {<<"a">>, <<" ", "A">>} :
          /\ SameItemName(n, items[<<"a">>].name)
          /\ updateFormSubmit(stored, Today, n, "2", <<>>).res = "saved"

\* C22: in every reachable state every item present in items has at least
\* one price-history entry, and while an item exists its price history only
\* grows (each operation leaves the previous history as a prefix); hence
\* resolveCurrentPrice resolves the price of an entry, never the default of
\* an empty history, for a stored item.
C22_PriceHistoryOnlyGrows ==
    /\ [](\A k \in DOMAIN items :
             /\ Len(items[k].priceHistory) >= 1
             /\ \E i \in 1..Len(items[k].priceHistory) :
                   getLatestPrice(items[k]) = items[k].priceHistory[i].price)
    /\ [][\A k \in (DOMAIN items) \cap (DOMAIN items') :
             /\ Len(items'[k].priceHistory) >= Len(items[k].priceHistory)
             /\ SubSeq(items'[k].priceHistory, 1, Len(items[k].priceHistory))
                    = items[k].priceHistory]_vars

\* the inline price edit has added a third entry to the history of an item
\* that the forms had written before, and it is the resolved price
C22_Witness ==
    /\ last.op = "inlinePrice"
    /\ Len(items[last.key].priceHistory) = 3
    /\ getLatestPrice(items[last.key]) = items[last.key].priceHistory[3].price

\* the row of the yearly report for month m is taken from its snapshot
RowFromSnapshot(m) ==
    LET y == yearOf(m)
        row == yearlyRows(items, sales, monthlySnapshots, y)[m - y * MonthsPerYear + 1]
    IN  /\ row.month = m
        /\ row.itemsTotal = monthlySnapshots[m].itemsTotal
        /\ row.salesTotal = monthlySnapshots[m].salesTotal
        /\ row.salesProfit = monthlySnapshots[m].salesProfit

\* C23: once a snapshot exists for a month it exists in every later state
\* (no operation deletes a snapshot), so from then on yearlyReport takes
\* that month's row from the snapshot and not from the live fallback, and
\* the snapshot stays as it is until monthlyReport for that month
\* overwrites it.
C23_SnapshotsStay ==
    /\ [](\A m \in DOMAIN monthlySnapshots : RowFromSnapshot(m))
    /\ [][\A m \in DOMAIN monthlySnapshots :
             /\ m \in DOMAIN monthlySnapshots'
             /\ monthlySnapshots'[m] # monthlySnapshots[m] =>
                    (last'.op = "monthly" /\ last'.month = m)]_vars

\* the yearly report was shown while the snapshot of a month was older than
\* the stock and the sales of the month, and its totals are the snapshot's
C23_Witness ==
    /\ last.op = "yearly"
    /\ \E m \in DOMAIN monthlySnapshots :
          /\ yearOf(m) = last.year
          /\ DOMAIN monthlySnapshots = {m}
          /\ monthlySnapshots[m].itemsTotal > 0
          /\ TotalsOf(m).itemsTotal # monthlySnapshots[m].itemsTotal
          /\ TotalsOf(m).salesTotal # monthlySnapshots[m].salesTotal
          /\ last.totals.sales =
                monthlySnapshots[m].salesTotal
                + SumOver(Months \ {m}, [x \in Months \ {m} |-> TotalsOf(x).salesTotal])

\* C24: a successful recordSale for item i dated in month m changes, besides
\* appending one sale, only quantities[m] and qtyHistory of item i: the
\* price history of every item, the quantities of item i in every other
\* month, every other item and all monthly snapshots are unchanged.
C24_SaleTouchesItsMonthOnly ==
    [][last'.op = "sale" =>
          LET i == last'.key
              m == last'.month
          IN  /\ Len(sales') = Len(sales) + 1
              /\ SubSeq(sales', 1, Len(sales)) = sales
              /\ ymOf(sales'[Len(sales')].date) = m
              /\ monthlySnapshots' = monthlySnapshots
              /\ DOMAIN items' = DOMAIN items
              /\ \A k \in DOMAIN items :
                    /\ items'[k].priceHistory = items[k].priceHistory
                    /\ items'[k].name = items[k].name
                    /\ k # i => items'[k] = items[k]
              /\ DOMAIN items'[i].quantities = (DOMAIN items[i].quantities) \cup {m}
              /\ \A x \in DOMAIN items[i].quantities :
                    x # m => items'[i].quantities[x] = items[i].quantities[x]
      ]_vars

\* a sale was recorded in one month for an item that has stock in another
\* month too, and that stock is all that was added there
C24_Witness ==
    /\ last.op = "sale"
    /\ Len(sales) = 1
    /\ \E x \in DOMAIN items[last.key].quantities :
          /\ x # last.month
          /\ items[last.key].quantities[x] > 0
          /\ items[last.key].quantities[x] = SumDeltas(items[last.key].qtyHistory, x)
    /\ last.month \in DOMAIN items[last.key].quantities
    /\ \E e \in 1..Len(items[last.key].qtyHistory) :
          /\ items[last.key].qtyHistory[e].source = "addForm"
          /\ items[last.key].qtyHistory[e].month = last.month

(***************************************************************************)
(* loadState on its own: what it returns for each text localStorage may    *)
(* hold under the key. The text is described by what it is:                *)
(*   "missing"   nothing is stored (getItem gives null),                   *)
(*   "empty"     the empty string,                                         *)
(*   "garbage"   text that is not JSON,                                    *)
(*   "json"      the JSON text of the value `value`.                       *)
(* A JavaScript value is [type, value] with type "null", "number",         *)
(* "string", "boolean" or "object"; the value of an object is the function *)
(* from the names of its properties to their values, and the containers    *)
(* ({} and []) of the document are objects.                                *)
(* The script has no 'use strict' directive and is not written as a        *)
(* module, so an assignment to a property of a primitive is ignored.       *)
(* Here the variable last holds the stored text and then what loadState    *)
(* returned for it; the other variables are not used.                      *)
(***************************************************************************)
FieldNames == {"items", "sales", "monthlySnapshots"}

JSNull == [type |-> "null", value |-> <<>>]

\* {} or [] with the content c
Container(c) == [type |-> "object", value |-> c]

\* the values a property of a stored object takes: null, 0, an empty
\* container and a container that holds something
FieldValues == {JSNull, [type |-> "number", value |-> 0],
                Container(<<>>), Container(<<"x">>)}

\* the objects with some of the three properties of a document
StoredObjects ==
    UNION {[F -> FieldValues] : F \in SUBSET FieldNames}

StoredPrimitives ==
    {[type |-> "number", value |-> 0], [type |-> "number", value |-> 1],
     [type |-> "string", value |-> ""], [type |-> "string", value |-> "s"],
     [type |-> "boolean", value |-> FALSE], [type |-> "boolean", value |-> TRUE]}

StoredTexts ==
    {[kind |-> "missing"], [kind |-> "empty"], [kind |-> "garbage"]}
    \cup {[kind |-> "json", value |-> v] :
            v \in {JSNull} \cup StoredPrimitives \cup {Container(o) : o \in StoredObjects}}

\* !raw: getItem gave null or the empty string
NoRaw(raw) == raw.kind \in {"missing", "empty"}

\* JSON.parse(raw): <<v>> for the value v, <<>> when it throws
JSONparse(raw) == IF raw.kind = "json" THEN <<raw.value>> ELSE <<>>

\* !v
Falsy(v) ==
    \/ v.type = "null"
    \/ v.type = "number" /\ v.value = 0
    \/ v.type = "string" /\ v.value = ""
    \/ v.type = "boolean" /\ ~v.value

\* !data.f for a data that is not null: a property data does not have is
\* undefined
NoField(data, f) ==
    IF data.type = "object" /\ f \in DOMAIN data.value
    THEN Falsy(data.value[f])
    ELSE TRUE

\* `if(!data.f) data.f = {}`: data after the statement; on a primitive the
\* assignment does nothing
DefaultField(data, f) ==
    IF NoField(data, f) /\ data.type = "object"
    THEN Container(Put(data.value, f, Container(<<>>)))
    ELSE data

\* { items: {}, sales: [], monthlySnapshots: {} }
EmptyDocument == Container([f \in FieldNames |-> Container(<<>>)])

\* loadState() when storage holds raw
loadState(raw) ==
    IF NoRaw(raw) THEN EmptyDocument
    ELSE LET parsed == JSONparse(raw)
         IN  IF parsed = <<>> THEN EmptyDocument
             ELSE IF parsed[1].type = "null" THEN EmptyDocument
             ELSE DefaultField(DefaultField(DefaultField(parsed[1],
                      "items"), "sales"), "monthlySnapshots")

InitLoad ==
    /\ items = <<>>
    /\ sales = <<>>
    /\ monthlySnapshots = <<>>
    /\ nops = 0
    /\ \E raw \in StoredTexts : last = [op |-> "stored", raw |-> raw]

LoadState ==
    /\ last.op = "stored"
    /\ last' = [op |-> "loadState", raw |-> last.raw, data |-> loadState(last.raw)]
    /\ UNCHANGED <<items, sales, monthlySnapshots, nops>>

NextLoad == LoadState

SpecLoad == InitLoad /\ [][NextLoad]_vars

\* a value with the three fields of a document, each a container
IsDocument(data) ==
    /\ data.type = "object"
    /\ \A f \in FieldNames :
          /\ f \in DOMAIN data.value
          /\ data.value[f].type = "object"

\* C12: load() returns a document with the three fields items, sales and
\* monthlySnapshots present as containers for every stored blob: missing,
\* unparseable text, JSON null, a JSON primitive, an object missing some
\* fields, or a valid document.
C12_LoadGivesDocument ==
    last.op = "loadState" => IsDocument(last.data)

(***************************************************************************)
(* getLatestPrice on its own: every history of up to MaxHist entries.      *)
(***************************************************************************)
MaxHist == 3
HistPrices == {1, 2}

RECURSIVE SeqsUpTo(_, _)
\* the sequences of at most n elements of S
SeqsUpTo(S, n) ==
    IF n = 0 THEN {<<>>}
    ELSE LET shorter == SeqsUpTo(S, n - 1)
         IN  shorter \cup {Append(q, e) : q \in shorter, e \in S}

InitPrice ==
    /\ \E h \in SeqsUpTo([price : HistPrices, date : Days], MaxHist) :
          items = Put(<<>>, <<"a">>,
                      [name |-> <<"a">>, priceHistory |-> h,
                       quantities |-> <<>>, qtyHistory |-> <<>>])
    /\ sales = <<>>
    /\ monthlySnapshots = <<>>
    /\ nops = 0
    /\ last = [op |-> "load"]

ResolvePrice ==
    \E k \in DOMAIN items :
        /\ last' = [op |-> "getLatestPrice", key |-> k, price |-> getLatestPrice(items[k])]
        /\ UNCHANGED <<items, sales, monthlySnapshots, nops>>

NextPrice == ResolvePrice

SpecPrice == InitPrice /\ [][NextPrice]_vars

====
